---- MODULE Spec2Model ----
(***************************************************************************)
(* Model of awg/api_server.py: the FastAPI handlers that manage WireGuard  *)
(* clients, the per-user traffic files and the deactivation procedure that *)
(* cycles the WireGuard interface around the client-store mutation.        *)
(*                                                                         *)
(* All handlers are `async def` coroutines served by one asyncio event     *)
(* loop (uvicorn.run, one server process).  A coroutine gives the loop to  *)
(* another request only at an await that suspends; the handlers modelled   *)
(* here contain none (subprocess.run and file I/O block the loop), so the  *)
(* variable `loop` names the call that holds the event loop.               *)
(*                                                                         *)
(* The module `db` (client store, policy ledger) is imported by the source *)
(* but is not part of it; its functions are modelled from the              *)
(* specification's Client Store and Policy Ledger contracts.               *)
(***************************************************************************)
EXTENDS Integers, Sequences, FiniteSets, TLC

\* ---- bounds ----
NumUsers == 2
MaxBytes == 1
MaxReq == 3

Users == 1..NumUsers
Bytes == 0..MaxBytes

\* Optional values (Python None / a value).
None == <<>>
Some(x) == <<x>>

VARIABLES
    clients,     \* db client store: user -> "absent" | "active" | "inactive"
    policy,      \* db policy ledger: user -> None | Some(policy record)
    traffic,     \* files/traffic/<user>_traffic.json: None (no file) | Some(dict)
    iface,       \* the WireGuard interface: "up" | "down"
    calls,       \* deactivate requests in arrival order, with their position
    loop,        \* index of the call holding the event loop, 0 when free
    resp,        \* response of the latest request served in one loop turn
    nreq,        \* number of requests received so far (also the clock)
    lastSample,  \* history: arguments of the latest update_traffic per user
    existed,     \* history: users that have ever been in the client store
    peak         \* history: largest <<incoming, outgoing>> ever stored per user

vars == <<clients, policy, traffic, iface, calls, loop, resp, nreq, lastSample,
          existed, peak>>

\* ---- request inputs ----
\* ClientCreate / ClientUpdate bodies: (expiration, traffic_limit)
PolicyInputs ==
    { [expiration |-> None,    traffic_limit |-> None],
      [expiration |-> Some(1), traffic_limit |-> Some("1MB")],
      [expiration |-> None,    traffic_limit |-> Some("bad")] }

\* ---- db (modelled from the specification) ----
\* Quota strings the Policy Ledger's parser accepts.
ValidQuota(s) == s \in {"1MB"}

\* db.get_active_list(): the active clients.
get_active_list == {u \in Users : clients[u] = "active"}

\* db.root_add(username, ipv6): Client Store Add; raises DuplicateClient.
root_add_raises(username) == clients[username] # "absent"
root_add(cl, username) == [cl EXCEPT ![username] = "active"]

\* db.set_user_expiration(username, expiration, traffic_limit): Policy Ledger
\* SetPolicy; an unparsable quota raises InvalidQuota without partial effect.
set_user_expiration_raises(p) ==
    p.traffic_limit # None /\ ~ValidQuota(p.traffic_limit[1])
set_user_expiration(pol, username, p) == [pol EXCEPT ![username] = Some(p)]

\* db.deactive_user_db(username): Client Store SetActive(username, false);
\* raises NotFound for a username that is not in the store.
deactive_user_db_raises(cl, username) == cl[username] = "absent"
deactive_user_db(cl, username) == [cl EXCEPT ![username] = "inactive"]

\* ---- traffic files ----
\* update_traffic: load the file's dict (or {}), overwrite three keys, dump.
\* json.dump / json.loads of a dict of ints and strings is exact, so the
\* file is held as the dict itself.
\* Variant: the sample is added to the stored counters (a delta, not an
\* absolute value).
update_traffic_accumulate(file, incoming_bytes, outgoing_bytes, now) ==
    LET old == IF file = None THEN [incoming |-> 0, outgoing |-> 0] ELSE file[1]
    IN  Some([incoming |-> old.incoming + incoming_bytes,
              outgoing |-> old.outgoing + outgoing_bytes,
              last_update |-> Some(now)])

\* Variant: the 'outgoing' key is assigned incoming_bytes.
update_traffic_slip(file, incoming_bytes, outgoing_bytes, now) ==
    Some([incoming |-> incoming_bytes,
          outgoing |-> incoming_bytes,
          last_update |-> Some(now)])

update_traffic(file, incoming_bytes, outgoing_bytes, now) ==
    LET current_data == IF file = None THEN <<>> ELSE file[1]
        written == {"incoming", "outgoing", "last_update"}
    IN  Some([k \in DOMAIN current_data \cup written |->
                CASE k = "incoming" -> incoming_bytes
                  [] k = "outgoing" -> outgoing_bytes
                  [] k = "last_update" -> Some(now)
                  [] OTHER -> current_data[k]])

\* read_traffic: zeros when the file does not exist, else the file's dict.
read_traffic(file) ==
    IF file = None
    THEN [incoming |-> 0, outgoing |-> 0, last_update |-> None]
    ELSE file[1]

Max(a, b) == IF a >= b THEN a ELSE b

NoBody == None
Resp(op, user, status, detail, body, pre) ==
    [op |-> op, user |-> user, status |-> status, detail |-> detail,
     body |-> body, pre |-> pre]

Init ==
    /\ clients = [u \in Users |-> "absent"]
    /\ policy = [u \in Users |-> None]
    /\ traffic = [u \in Users |-> None]
    /\ iface = "up"
    /\ calls = <<>>
    /\ loop = 0
    /\ resp = Resp("none", 0, 0, "", NoBody, "absent")
    /\ nreq = 0
    /\ lastSample = [u \in Users |-> None]
    /\ existed = {}
    /\ peak = [u \in Users |-> <<0, 0>>]

\* POST /client/{username}/traffic
update_client_traffic(username, incoming_bytes, outgoing_bytes) ==
    /\ loop = 0
    /\ nreq < MaxReq
    /\ nreq' = nreq + 1
    /\ traffic' = [traffic EXCEPT ![username] =
                      update_traffic(traffic[username], incoming_bytes,
                                     outgoing_bytes, nreq')]
    /\ lastSample' = [lastSample EXCEPT ![username] =
                         Some(<<incoming_bytes, outgoing_bytes>>)]
    /\ peak' = [peak EXCEPT ![username] =
                   <<Max(@[1], traffic'[username][1].incoming),
                     Max(@[2], traffic'[username][1].outgoing)>>]
    /\ resp' = Resp("traffic", username, 200, "", NoBody, clients[username])
    /\ UNCHANGED <<clients, policy, iface, calls, loop, existed>>

\* GET /client/{username}/traffic
get_client_traffic(username) ==
    /\ loop = 0
    /\ nreq < MaxReq
    /\ nreq' = nreq + 1
    /\ resp' = Resp("read", username, 200, "",
                    Some(read_traffic(traffic[username])), clients[username])
    /\ UNCHANGED <<clients, policy, traffic, iface, calls, loop, lastSample, existed, peak>>

\* POST /clients/
\* root_add, then set_user_expiration when a limit is given, then the config
\* file written by root_add is read back; any exception becomes a 500.
create_client(username, p) ==
    /\ loop = 0
    /\ nreq < MaxReq
    /\ nreq' = nreq + 1
    /\ IF root_add_raises(username)
       THEN /\ resp' = Resp("create", username, 500, "DuplicateClient", NoBody,
                            clients[username])
            /\ UNCHANGED <<clients, policy, existed>>
       ELSE /\ clients' = root_add(clients, username)
            /\ existed' = existed \cup {username}
            /\ IF p.expiration # None \/ p.traffic_limit # None
               THEN IF set_user_expiration_raises(p)
                    THEN /\ resp' = Resp("create", username, 500, "InvalidQuota",
                                         NoBody, clients[username])
                         /\ UNCHANGED policy
                    ELSE /\ policy' = set_user_expiration(policy, username, p)
                         /\ resp' = Resp("create", username, 200, "", NoBody,
                                         clients[username])
               ELSE /\ resp' = Resp("create", username, 200, "", NoBody,
                                    clients[username])
                    /\ UNCHANGED policy
    /\ UNCHANGED <<traffic, iface, calls, loop, lastSample, peak>>

\* DELETE /clients/{username}
delete_client(username) ==
    /\ loop = 0
    /\ nreq < MaxReq
    /\ nreq' = nreq + 1
    /\ IF deactive_user_db_raises(clients, username)
       THEN /\ resp' = Resp("delete", username, 500, "NotFound", NoBody,
                            clients[username])
            /\ UNCHANGED clients
       ELSE /\ clients' = deactive_user_db(clients, username)
            /\ resp' = Resp("delete", username, 200, "", NoBody,
                            clients[username])
    /\ UNCHANGED <<policy, traffic, iface, calls, loop, lastSample, existed, peak>>

\* The status a handler's `except Exception` clause gives to an exception
\* raised inside its try block: every exception, the handler's own
\* HTTPException(404) included, is re-raised as HTTPException(500).
ExceptStatus(raisedStatus) == 500

\* PATCH /clients/{username}
\* The db.read_traffic call that fills traffic_used reads only (Read never
\* fails) and changes no state.
update_client(username, p) ==
    /\ loop = 0
    /\ nreq < MaxReq
    /\ nreq' = nreq + 1
    /\ IF username \notin get_active_list
       THEN /\ resp' = Resp("update", username, ExceptStatus(404),
                            "Client not found", NoBody, clients[username])
            /\ UNCHANGED policy
       ELSE IF set_user_expiration_raises(p)
            THEN /\ resp' = Resp("update", username, ExceptStatus(500),
                                 "InvalidQuota", NoBody, clients[username])
                 /\ UNCHANGED policy
            ELSE /\ policy' = set_user_expiration(policy, username, p)
                 /\ resp' = Resp("update", username, 200, "", NoBody,
                                 clients[username])
    /\ UNCHANGED <<clients, traffic, iface, calls, loop, lastSample, existed, peak>>

\* ---- deactivation ----
\* subprocess.run(cmd, check=True) raises CalledProcessError when the
\* command exits non-zero.
run_check_raises(exitOk) == ~exitOk

\* Positions of deactivate_user at which the coroutine suspends and hands
\* the event loop to another request: its body has no await.
\* Variant: the bring-down is awaited (an asyncio subprocess), so the
\* coroutine suspends once the interface is down.
AwaitPoints_suspending == {"downed"}

AwaitPoints == {}

\* Control flow of deactivate_user's try block: bring-down, store
\* deactivation, bring-up in that order; an exception leaves the block.
\* Variant: subprocess.run without check=True and no abort on error.
deactivate_user_next_unchecked(pc, raised) ==
    CASE pc = "pending" -> "downed"
      [] pc = "downed" -> "stored"
      [] pc = "stored" -> "done"

deactivate_user_next(pc, raised) ==
    IF raised THEN "done"
    ELSE CASE pc = "pending" -> "downed"
           [] pc = "downed" -> "stored"
           [] pc = "stored" -> "done"

\* deactivate_client: 200 {"status": "success"} when deactivate_user
\* returns, HTTPException(500) when it raises.
\* Variant: the handler swallows the exception.
deactivate_client_status_swallow(raised) == 200

deactivate_client_status(raised) == IF raised THEN 500 ELSE 200

CanRun(i) == loop = i \/ loop = 0
Holds(i, pc) == IF pc = "done" \/ pc \in AwaitPoints THEN 0 ELSE i
NotDone(u) == {j \in DOMAIN calls : calls[j].user = u /\ calls[j].pc # "done"}

\* POST /client/{username}/deactivate arrives and waits for the event loop.
SubmitDeactivate(username) ==
    /\ nreq < MaxReq
    /\ nreq' = nreq + 1
    /\ calls' = Append(
          [j \in DOMAIN calls |->
              IF j \in NotDone(username)
              THEN [calls[j] EXCEPT !.overlap = TRUE] ELSE calls[j]],
          [user |-> username, pc |-> "pending", status |-> 0,
           pre |-> "absent", launched |-> FALSE, failedAt |-> "none",
           steps |-> <<>>, overlap |-> NotDone(username) # {}])
    /\ UNCHANGED <<clients, policy, traffic, iface, loop, resp, lastSample, existed, peak>>

\* A step of call i moves it to deactivate_user_next and, when the call
\* ends there, fixes its HTTP status.
Step(i, name, raised, pre) ==
    LET c == calls[i]
        pc2 == deactivate_user_next(c.pc, raised)
    IN  /\ calls' = [calls EXCEPT ![i] =
                [c EXCEPT !.pc = pc2,
                          !.pre = pre,
                          !.launched = TRUE,
                          !.steps = Append(c.steps, name),
                          !.failedAt = IF raised /\ c.failedAt = "none"
                                       THEN name ELSE c.failedAt,
                          !.status = IF pc2 = "done"
                                     THEN deactivate_client_status(raised)
                                     ELSE 0]]
        /\ loop' = Holds(i, pc2)

\* wg-quick down
BringDown(i, exitOk) ==
    /\ calls[i].pc = "pending"
    /\ loop = 0
    /\ iface' = IF exitOk THEN "down" ELSE iface
    /\ Step(i, "down", run_check_raises(exitOk), clients[calls[i].user])
    /\ UNCHANGED <<clients, policy, traffic, resp, nreq, lastSample, existed, peak>>

\* db.deactive_user_db(username)
StoreDeactivate(i) ==
    /\ calls[i].pc = "downed"
    /\ CanRun(i)
    /\ LET raised == deactive_user_db_raises(clients, calls[i].user)
       IN  /\ clients' = IF raised THEN clients
                         ELSE deactive_user_db(clients, calls[i].user)
           /\ Step(i, "db", raised, calls[i].pre)
    /\ UNCHANGED <<policy, traffic, iface, resp, nreq, lastSample, existed, peak>>

\* wg-quick up
BringUp(i, exitOk) ==
    /\ calls[i].pc = "stored"
    /\ CanRun(i)
    /\ iface' = IF exitOk THEN "up" ELSE iface
    /\ Step(i, "up", run_check_raises(exitOk), calls[i].pre)
    /\ UNCHANGED <<clients, policy, traffic, resp, nreq, lastSample, existed, peak>>

Next ==
    \/ \E u \in Users, i \in Bytes, o \in Bytes : update_client_traffic(u, i, o)
    \/ \E u \in Users : get_client_traffic(u)
    \/ \E u \in Users, p \in PolicyInputs : create_client(u, p)
    \/ \E u \in Users : delete_client(u)
    \/ \E u \in Users, p \in PolicyInputs : update_client(u, p)
    \/ \E u \in Users : SubmitDeactivate(u)
    \/ \E i \in DOMAIN calls, ok \in BOOLEAN : BringDown(i, ok)
    \/ \E i \in DOMAIN calls : StoreDeactivate(i)
    \/ \E i \in DOMAIN calls, ok \in BOOLEAN : BringUp(i, ok)

Spec == Init /\ [][Next]_vars

\* ======================= properties =======================
AllSteps == <<"down", "db", "up">>
InFlight == {i \in DOMAIN calls : calls[i].pc \in {"downed", "stored"}}

\* The counters of record `data` are those of sample `s` (zeros for None).
Matches(data, s) ==
    IF s = None
    THEN data.incoming = 0 /\ data.outgoing = 0
    ELSE data.incoming = s[1][1] /\ data.outgoing = s[1][2]

\* C1: reading the traffic of any user never fails and yields the counters
\* of that user's most recent update_traffic, or zeros when there has been
\* none; samples of other users do not affect it.
C1_ReadReturnsLastSample ==
    /\ \A u \in Users : Matches(read_traffic(traffic[u]), lastSample[u])
    /\ resp.op = "read" =>
          /\ resp.status = 200
          /\ Matches(resp.body[1], lastSample[resp.user])

\* A read answered with a non-zero sample after a different sample was
\* recorded for another user.
C1_Witness ==
    /\ resp.op = "read"
    /\ resp.body[1].incoming = 1
    /\ resp.body[1].outgoing = 0
    /\ \E v \in Users \ {resp.user} :
          lastSample[v] # None /\ lastSample[v] # lastSample[resp.user]

\* C2: a deactivate call for a client that is already inactive is a no-op:
\* it does not invoke the interface-control mechanism.
C2_InactiveDeactivateIsNoOp ==
    \A i \in DOMAIN calls : calls[i].pre = "inactive" => ~calls[i].launched

\* C3: of the overlapping deactivate calls for one user, once all have
\* completed without a failing step, all succeeded and exactly one launched
\* an interface down/up cycle.
C3_ExactlyOneCycle ==
    \A u \in Users :
        LET D == {i \in DOMAIN calls : calls[i].user = u /\ calls[i].overlap}
        IN  (D # {} /\ \A i \in D : calls[i].pc = "done" /\ calls[i].failedAt = "none")
            => /\ \A i \in D : calls[i].status = 200
               /\ Cardinality({i \in D : calls[i].launched}) = 1

\* C4: at most one call is between its bring-down and its bring-up.
C4_OneCycleInFlight == Cardinality(InFlight) <= 1

\* A call for another user waits while a cycle is in flight.
C4_Witness ==
    \E i \in InFlight : \E j \in DOMAIN calls :
        calls[j].pc = "pending" /\ calls[j].user # calls[i].user

\* C5: deleting a client that is still active fails with InvalidState and
\* leaves the client store unchanged.
C5_RemoveRequiresDeactivated ==
    (resp.op = "delete" /\ resp.pre = "active")
        => /\ resp.status # 200
           /\ resp.detail = "InvalidState"
           /\ (InFlight = {} => clients[resp.user] = "active")

\* C6: updating the policy of a username that is not in the client set
\* answers 404 (NotFound), distinct from the 500 of the other failures, and
\* writes no policy.
C6_UpdateAbsentIsNotFound ==
    (resp.op = "update" /\ resp.pre = "absent")
        => /\ resp.status = 404
           /\ policy[resp.user] = None

Decreased(u) ==
    /\ traffic[u] # None
    /\ \/ traffic'[u] = None
       \/ traffic'[u][1].incoming < traffic[u][1].incoming
       \/ traffic'[u][1].outgoing < traffic[u][1].outgoing

\* The store-deactivation step of a deactivate call for u.
DeactivationStep(u) ==
    \E i \in DOMAIN calls :
        calls[i].user = u /\ calls[i].pc = "downed" /\ calls'[i].pc # "downed"

\* An update_traffic for u that stores exactly its arguments.
SampleStep(u) ==
    /\ nreq' = nreq + 1
    /\ resp'.op = "traffic"
    /\ resp'.user = u
    /\ traffic'[u] # None
    /\ Matches(traffic'[u][1], lastSample'[u])

\* C7 (as stated): the stored counters of a user never decrease in a step,
\* except in a deactivation.
C7_NeverDecrease ==
    [][\A u \in Users : Decreased(u) => DeactivationStep(u)]_vars

\* C7 (amended): the stored counters of a user decrease only in a
\* deactivation or in an update_traffic for that user, which overwrites
\* them with exactly its arguments.
C7_DecreaseOnlyByOverwrite ==
    [][\A u \in Users : Decreased(u) => DeactivationStep(u) \/ SampleStep(u)]_vars

\* A stored counter is below an earlier stored value.
C7_Witness ==
    \E u \in Users :
        /\ traffic[u] # None
        /\ traffic[u][1].incoming < peak[u][1]
        /\ traffic[u][1].incoming = lastSample[u][1][1]

\* C8: every user with a traffic file or a policy record has existed in the
\* client store.
C8_NoOrphans ==
    \A u \in Users : (traffic[u] # None \/ policy[u] # None) => u \in existed

\* C9: a deactivate call in which an interface-control command failed does
\* not answer success, and when the failing command is the bring-up the
\* store deactivation made before it stays in place.
C9_FailureSurfacedNoRollback ==
    \A i \in DOMAIN calls :
        (calls[i].pc = "done" /\ calls[i].failedAt \in {"down", "up"})
            => /\ calls[i].status = 500
               /\ calls[i].failedAt = "up" => clients[calls[i].user] = "inactive"

\* The bring-up failed after an active client was deactivated in the store.
C9_Witness ==
    \E i \in DOMAIN calls :
        /\ calls[i].pc = "done"
        /\ calls[i].failedAt = "up"
        /\ calls[i].pre = "active"
        /\ calls[i].status = 500
        /\ clients[calls[i].user] = "inactive"

IsPrefix(s, t) == Len(s) <= Len(t) /\ \A k \in 1..Len(s) : s[k] = t[k]

\* The steps of every call are a prefix of down, db, up; a failing step is
\* the last one; success is answered exactly after all three succeeded.
StepsInOrder ==
    \A i \in DOMAIN calls :
        LET c == calls[i]
        IN  /\ IsPrefix(c.steps, AllSteps)
            /\ c.failedAt # "none" =>
                  c.pc = "done" /\ c.steps[Len(c.steps)] = c.failedAt
            /\ c.status = 200 <=>
                  (c.pc = "done" /\ c.failedAt = "none" /\ c.steps = AllSteps)
            /\ (c.pc = "done" /\ c.status # 200) => c.status = 500

\* A call returns successfully in this step.
ReturnsSuccess(i) ==
    calls[i].pc # "done" /\ calls'[i].pc = "done" /\ calls'[i].status = 200

\* C10 (as stated, its consequence): whenever some call has returned
\* successfully and no call is pending or in progress, the interface is up.
C10_UpWheneverSomeCallSucceeded ==
    (/\ \E i \in DOMAIN calls : calls[i].status = 200
     /\ \A i \in DOMAIN calls : calls[i].pc = "done")
        => iface = "up"

\* C10 (amended): the three steps run in the order down, db, up and the
\* call aborts at the first failing one; the interface is up at the moment
\* a call returns successfully, and goes down afterwards only by the
\* bring-down of a later call.
C10_OrderAndUpOnReturn ==
    /\ []StepsInOrder
    /\ [][\A i \in DOMAIN calls : ReturnsSuccess(i) => iface' = "up"]_vars
    /\ [][(iface = "up" /\ iface' = "down") =>
            \E i \in DOMAIN calls :
                calls[i].pc = "pending" /\ calls'[i].steps = <<"down">>]_vars

\* One call has succeeded and a later one has failed at the store step.
C10_Witness ==
    \E i, j \in DOMAIN calls :
        /\ calls[i].status = 200
        /\ calls[i].steps = AllSteps
        /\ calls[j].pc = "done"
        /\ calls[j].failedAt = "db"
        /\ calls[j].steps = <<"down", "db">>
====
